---- MODULE Spec2Model ----
(***************************************************************************)
(* Model of src/py/registration/RegularizedInPlaneRegistration.py:         *)
(* slice projection, the chained residual evaluator driven by a nonlinear  *)
(* least-squares solver, and the composition of the fitted 2D corrections  *)
(* into per-slice 3D transforms.                                           *)
(*                                                                         *)
(* Geometry is exact integer geometry: unit spacing, direction matrices    *)
(* that are signed permutations, integer origins and translations, and     *)
(* rotation angles counted in quarter turns.  On that lattice every        *)
(* transform maps grid points to grid points, so linear interpolation is   *)
(* exact sampling and no rounding enters the model.                        *)
(***************************************************************************)
EXTENDS Integers, Sequences, FiniteSets, TLC

\* ------------------------------------------------------------------ bounds
MaxSlices == 3
MaxNfev == 3
MaxShift == 1
Width == 4
Height == 3

\* degrees of freedom of one 2D rigid transform (angle, tx, ty)
DOF == 3

\* a non-finite pixel (PIXEL_TYPE is a double: it can hold NaN)
NaN == 1000

\* ------------------------------------------------------- vectors, matrices
Dot3(r, v) == r[1] * v[1] + r[2] * v[2] + r[3] * v[3]

MatVec3(A, v) == << Dot3(A[1], v), Dot3(A[2], v), Dot3(A[3], v) >>

Col3(A, j) == << A[1][j], A[2][j], A[3][j] >>

MatMul3(A, B) ==
    [i \in 1..3 |-> [j \in 1..3 |-> Dot3(A[i], Col3(B, j))]]

Add3(u, v) == << u[1] + v[1], u[2] + v[2], u[3] + v[3] >>

Sub3(u, v) == << u[1] - v[1], u[2] - v[2], u[3] - v[3] >>

Neg3(u) == << 0 - u[1], 0 - u[2], 0 - u[3] >>

Zero3 == << 0, 0, 0 >>

Id3 == << <<1, 0, 0>>, <<0, 1, 0>>, <<0, 0, 1>> >>

Det3(A) ==
      A[1][1] * (A[2][2] * A[3][3] - A[2][3] * A[3][2])
    - A[1][2] * (A[2][1] * A[3][3] - A[2][3] * A[3][1])
    + A[1][3] * (A[2][1] * A[3][2] - A[2][2] * A[3][1])

\* cofactor of entry (i, j); indices wrap around 1..3
Nxt(i) == (i % 3) + 1

Cof3(A, i, j) ==
      A[Nxt(i)][Nxt(j)] * A[Nxt(Nxt(i))][Nxt(Nxt(j))]
    - A[Nxt(i)][Nxt(Nxt(j))] * A[Nxt(Nxt(i))][Nxt(j)]

\* inverse by adjugate / determinant; the matrices of the model have
\* determinant 1 or -1, for which 1 / det = det
MatInv3(A) ==
    [i \in 1..3 |-> [j \in 1..3 |-> Det3(A) * Cof3(A, j, i)]]

\* rotation by k quarter turns about the z axis
RotZ(k) ==
    CASE k % 4 = 0 -> << <<1, 0, 0>>, <<0, 1, 0>>, <<0, 0, 1>> >>
      [] k % 4 = 1 -> << <<0, 0 - 1, 0>>, <<1, 0, 0>>, <<0, 0, 1>> >>
      [] k % 4 = 2 -> << <<0 - 1, 0, 0>>, <<0, 0 - 1, 0>>, <<0, 0, 1>> >>
      [] k % 4 = 3 -> << <<0, 1, 0>>, <<0 - 1, 0, 0>>, <<0, 0, 1>> >>

\* 2D rotation by k quarter turns applied to a 2-vector
Rot2(k, v) ==
    CASE k % 4 = 0 -> << v[1], v[2] >>
      [] k % 4 = 1 -> << 0 - v[2], v[1] >>
      [] k % 4 = 2 -> << 0 - v[1], 0 - v[2] >>
      [] k % 4 = 3 -> << v[2], 0 - v[1] >>

\* ------------------------------------------------------ affine transforms
\* T(x) = A (x - c) + t + c
Affine(A, t, c) == [A |-> A, t |-> t, c |-> c]

IdentityAffine == Affine(Id3, Zero3, Zero3)

ApplyAffine(T, x) == Add3(Add3(MatVec3(T.A, Sub3(x, T.c)), T.t), T.c)

\* sitk.AffineTransform(T.GetInverse()): inverse matrix, same centre
InvertAffine(T) ==
    LET Ai  == MatInv3(T.A)
        off == Sub3(Add3(T.t, T.c), MatVec3(T.A, T.c))
        ofi == Neg3(MatVec3(Ai, off))
    IN  Affine(Ai, Add3(Sub3(ofi, T.c), MatVec3(Ai, T.c)), T.c)

\* sitkh.get_composite_sitk_affine_transform(outer, inner): outer(inner(x))
ComposeAffine(outer, inner) ==
    Affine(MatMul3(outer.A, inner.A),
           Sub3(Add3(Add3(MatVec3(outer.A,
                                  Sub3(Add3(inner.t, inner.c), outer.c)),
                          outer.t),
                     outer.c),
                inner.c),
           inner.c)

\* ------------------------------------------------------ 2D rigid transforms
\* sitk.Euler2DTransform(): identity, centre (0, 0)
NewEuler2D == [angle |-> 0, tx |-> 0, ty |-> 0, cx |-> 0, cy |-> 0]

\* faulty variant of SetParameters: the two translations are exchanged
SetParametersSwapped(T, p) ==
    [T EXCEPT !.angle = p[1], !.tx = p[3], !.ty = p[2]]

\* Euler2DTransform.SetParameters((angle, tx, ty)): the centre is a fixed
\* parameter and is not touched
SetParameters(T, p) == [T EXCEPT !.angle = p[1], !.tx = p[2], !.ty = p[3]]

\* T(p) = R (p - c) + c + t
ApplyEuler2D(T, p) ==
    LET r == Rot2(T.angle, << p[1] - T.cx, p[2] - T.cy >>)
    IN  << r[1] + T.cx + T.tx, r[2] + T.cy + T.ty >>

\* Euler2DTransform(T.GetInverse()): same centre, angle negated,
\* translation -(R^-1 t)
InvertEuler2D(T) ==
    LET r == Rot2(0 - T.angle, << T.tx, T.ty >>)
    IN  [angle |-> 0 - T.angle, tx |-> 0 - r[1], ty |-> 0 - r[2],
         cx |-> T.cx, cy |-> T.cy]

\* _get_3D_from_2D_rigid_transform_sitk: rotation about z by the 2D angle,
\* translation (tx, ty, 0), centre (cx, cy, 0)
Get3DFrom2D(T) ==
    Affine(RotZ(T.angle), << T.tx, T.ty, 0 >>, << T.cx, T.cy, 0 >>)

\* ------------------------------------------------------------------ images
\* pixel arithmetic on doubles: NaN is absorbing
PixSub(a, b) == IF a = NaN \/ b = NaN THEN NaN ELSE a - b

PixMul(a, b) == IF a = NaN \/ b = NaN THEN NaN ELSE a * b

\* a 2D image: pixel array in numpy order (row y, column x, flattened
\* row-major), size <<W, H>>, origin, unit spacing, identity direction
Image2D(nda, size, origin) == [nda |-> nda, size |-> size, origin |-> origin]

PixelAt(img, ix, iy) ==
    IF ix >= 0 /\ ix < img.size[1] /\ iy >= 0 /\ iy < img.size[2]
    THEN img.nda[iy * img.size[1] + ix + 1]
    ELSE 0

\* sitk.Resample(moving, reference, transform, sitkLinear): the value at a
\* reference grid point p is the moving image at transform(p); points that
\* fall outside the moving image get the default pixel value 0
Resample(moving, grid, T) ==
    [k \in 1..(grid.size[1] * grid.size[2]) |->
        LET gx == (k - 1) % grid.size[1]
            gy == (k - 1) \div grid.size[1]
            p  == << grid.origin[1] + gx, grid.origin[2] + gy >>
            q  == ApplyEuler2D(T, p)
        IN  PixelAt(moving, q[1] - moving.origin[1], q[2] - moving.origin[2])]

\* sitk.GetArrayFromImage(img) - the pixel array
GetArrayFromImage(img) == img.nda

\* (a - b).flatten() for two arrays of the same shape
ArraySub(a, b) == [k \in 1..Len(a) |-> PixSub(a[k], b[k])]

IsFinite(r) == \A k \in 1..Len(r) : r[k] # NaN

RECURSIVE SumSquares(_, _)
SumSquares(r, k) == IF k = 0 THEN 0 ELSE r[k] * r[k] + SumSquares(r, k - 1)

\* 0.5 * dot(f, f) up to the factor; only compared, never reported
Cost(r) == SumSquares(r, Len(r))

\* ------------------------------------------------------------ stack, slices
\* a slice of the stack: a W x H x 1 image with its placement and mask
Slice3D(direction, origin, nda, mask) ==
    [direction |-> direction, origin |-> origin, nda |-> nda, mask |-> mask]

\* sl.Slice.from_slice / st.Stack.from_stack: a copy that shares nothing
\* with the object it was made from
SliceFromSlice(s) == Slice3D(s.direction, s.origin, s.nda, s.mask)

StackFromStack(stack) ==
    [size |-> stack.size,
     slices |-> [i \in 1..Len(stack.slices) |-> SliceFromSlice(stack.slices[i])]]

\* sitkh.get_sitk_affine_transform_from_sitk_image: direction * spacing and
\* origin (unit spacing)
AffineFromImage(s) == Affine(s.direction, s.origin, Zero3)

\* Slice.update_motion_correction(A): the slice's image-to-physical
\* transform becomes A o T_PI; direction and origin are read back from it
UpdateMotionCorrection(s, A) ==
    LET T == ComposeAffine(A, AffineFromImage(s))
    IN  [s EXCEPT !.direction = T.A, !.origin = T.t]

\* _get_list_of_3D_rigid_transforms_of_slices: per slice, the inverse of
\* the affine transform with the slice's direction and origin
ListOf3DRigidTransforms(stack) ==
    [i \in 1..Len(stack.slices) |->
        InvertAffine(Affine(stack.slices[i].direction,
                            stack.slices[i].origin, Zero3))]

\* faulty variant of ProjectSlice: the header of the stack's own slice is
\* re-oriented instead of the header of a copy
ProjectSliceInPlace(stack, i, PP, useMask) ==
    LET TPI     == AffineFromImage(stack.slices[i])
        Talign  == ComposeAffine(PP[i], TPI)
        moved   == [stack.slices[i] EXCEPT !.direction = Talign.A,
                                           !.origin = Talign.t]
        nda     == IF useMask
                   THEN [k \in 1..Len(moved.nda) |->
                            PixMul(moved.nda[k], moved.mask[k])]
                   ELSE moved.nda
    IN  [stack   |-> [stack EXCEPT !.slices[i] = moved],
         slice2D |-> Image2D(nda, << stack.size[1], stack.size[2] >>,
                             << moved.origin[1], moved.origin[2] >>)]

\* one iteration of _get_2D_projected_and_masked_slices.  The slice is
\* copied, the copy's header is re-oriented by T_PI_align, its plane z = 0
\* is extracted and (when asked for) weighted by the mask.  Result: the
\* stack as the iteration leaves it, and the projected 2D slice.
ProjectSlice(stack, i, PP, useMask) ==
    LET slice3D == SliceFromSlice(stack.slices[i])
        TPI     == AffineFromImage(slice3D)
        Talign  == ComposeAffine(PP[i], TPI)
        moved   == [slice3D EXCEPT !.direction = Talign.A, !.origin = Talign.t]
        plain   == moved.nda
        nda     == IF useMask
                   THEN [k \in 1..Len(plain) |-> PixMul(plain[k], moved.mask[k])]
                   ELSE plain
    IN  [stack   |-> stack,
         slice2D |-> Image2D(nda, << stack.size[1], stack.size[2] >>,
                             << moved.origin[1], moved.origin[2] >>)]

\* np.zeros(n)
Zeros(n) == [k \in 1..n |-> 0]

\* ------------------------------------------------------- residual evaluator
\* parameters_vec.reshape(-1, DOF): group g is entries DOF*(g-1)+1 .. DOF*g
Reshape(x) ==
    [g \in 1..(Len(x) \div DOF) |-> SubSeq(x, DOF * (g - 1) + 1, DOF * g)]

RECURSIVE Flatten(_)
Flatten(rows) ==
    IF rows = << >> THEN << >> ELSE Head(rows) \o Flatten(Tail(rows))

\* The loop of _get_residual_data_fit, iteration i (0-based) onwards.
\* st.heap holds the Euler2DTransform objects and tsitk the list of
\* references to them; st.prev is slice_i_nda.  Python position j of a list
\* is position j + 1 here.
RECURSIVE FitLoop(_, _, _, _, _, _, _, _)
FitLoop(i, last, par, tsitk, slices, grid, nvox, st) ==
    IF i >= last \/ st.err # "none" THEN st
    ELSE IF i + 2 > Len(tsitk) \/ i + 2 > Len(slices) \/ i + 1 > Len(par)
    THEN [st EXCEPT !.err = "IndexError"]
    ELSE
      LET id    == tsitk[i + 2]
          heap1 == [st.heap EXCEPT ![id] = SetParameters(@, par[i + 1])]
          ip1   == GetArrayFromImage(
                       Image2D(Resample(slices[i + 2], grid, heap1[id]),
                               grid.size, grid.origin))
          block == ArraySub(st.prev, ip1)
      IN  IF Len(block) # nvox
          THEN [st EXCEPT !.heap = heap1, !.err = "ValueError"]
          ELSE FitLoop(i + 1, last, par, tsitk, slices, grid, nvox,
                       [heap |-> heap1, prev |-> ip1,
                        rows |-> Append(st.rows, block),
                        nda  |-> Append(st.nda, ip1), err |-> "none"])

\* faulty variant of the loop: the slice is resampled before the
\* parameters are set, so the transform still holds what the previous use
\* left in it
RECURSIVE FitLoopResampleFirst(_, _, _, _, _, _, _, _)
FitLoopResampleFirst(i, last, par, tsitk, slices, grid, nvox, st) ==
    IF i >= last \/ st.err # "none" THEN st
    ELSE
      LET id    == tsitk[i + 2]
          ip1   == Resample(slices[i + 2], grid, st.heap[id])
          heap1 == [st.heap EXCEPT ![id] = SetParameters(@, par[i + 1])]
      IN  FitLoopResampleFirst(i + 1, last, par, tsitk, slices, grid, nvox,
                       [heap |-> heap1, prev |-> ip1,
                        rows |-> Append(st.rows, ArraySub(st.prev, ip1)),
                        nda  |-> Append(st.nda, ip1), err |-> "none"])

ResidualDataFitResampleFirst(x, heap, tsitk, slices, grid, nslices, nvox) ==
    LET nda0 == GetArrayFromImage(slices[1])
        st   == FitLoopResampleFirst(0, nslices - 1, Reshape(x), tsitk, slices,
                          grid, nvox,
                          [heap |-> heap, prev |-> nda0, rows |-> << >>,
                           nda |-> << nda0 >>, err |-> "none"])
    IN  [heap |-> st.heap, nda |-> st.nda,
         residual |-> Flatten(st.rows), err |-> st.err]

\* faulty variant of the evaluator: all parameters are set in a first pass
\* and the slices resampled in a second one
RECURSIVE SetAll(_, _, _, _, _)
SetAll(i, last, par, tsitk, heap) ==
    IF i >= last THEN heap
    ELSE SetAll(i + 1, last, par, tsitk,
                [heap EXCEPT ![tsitk[i + 2]] = SetParameters(@, par[i + 1])])

RECURSIVE ResampleAll(_, _, _, _, _, _)
ResampleAll(i, last, tsitk, slices, grid, st) ==
    IF i >= last THEN st
    ELSE
      LET ip1 == Resample(slices[i + 2], grid, st.heap[tsitk[i + 2]])
      IN  ResampleAll(i + 1, last, tsitk, slices, grid,
                      [heap |-> st.heap, prev |-> ip1,
                       rows |-> Append(st.rows, ArraySub(st.prev, ip1)),
                       nda  |-> Append(st.nda, ip1), err |-> "none"])

ResidualDataFitSetAllFirst(x, heap, tsitk, slices, grid, nslices, nvox) ==
    LET nda0 == GetArrayFromImage(slices[1])
        st   == ResampleAll(0, nslices - 1, tsitk, slices, grid,
                    [heap |-> SetAll(0, nslices - 1, Reshape(x), tsitk, heap),
                     prev |-> nda0, rows |-> << >>,
                     nda |-> << nda0 >>, err |-> "none"])
    IN  [heap |-> st.heap, nda |-> st.nda,
         residual |-> Flatten(st.rows), err |-> st.err]

\* faulty variant of the evaluator: the residual array has one row per
\* slice instead of one per pair of neighbours
ResidualDataFitExtraRow(x, heap, tsitk, slices, grid, nslices, nvox) ==
    LET nda0 == GetArrayFromImage(slices[1])
        st   == FitLoop(0, nslices - 1, Reshape(x), tsitk, slices, grid, nvox,
                        [heap |-> heap, prev |-> nda0, rows |-> << >>,
                         nda |-> << nda0 >>, err |-> "none"])
    IN  [heap |-> st.heap, nda |-> st.nda,
         residual |-> Flatten(Append(st.rows, Zeros(nvox))), err |-> st.err]

\* _get_residual_data_fit(parameters_vec, transforms_sitk): the heap after
\* the call, the arrays nda[0..N-1] it compared, and the flat residual
ResidualDataFit(x, heap, tsitk, slices, grid, nslices, nvox) ==
    IF Len(x) % DOF # 0
    THEN [heap |-> heap, nda |-> << >>, residual |-> << >>, err |-> "ValueError"]
    ELSE
      LET nda0 == GetArrayFromImage(slices[1])
          st   == FitLoop(0, nslices - 1, Reshape(x), tsitk, slices, grid, nvox,
                          [heap |-> heap, prev |-> nda0, rows |-> << >>,
                           nda |-> << nda0 >>, err |-> "none"])
      IN  [heap |-> st.heap, nda |-> st.nda,
           residual |-> Flatten(st.rows), err |-> st.err]

\* ------------------------------------------------------ correction composer
\* faulty variant of ReconstructParameters: the zero row is put last
ReconstructParametersAppend(x) == Reshape(x) \o << Zeros(DOF) >>

\* lines 92-93: res.x reshaped to rows of DOF values, a zero row put first
ReconstructParameters(x) == << Zeros(DOF) >> \o Reshape(x)

\* faulty variant of ComposeStep: only the translation of the reused 2D
\* transform is set, its angle is what the previous iteration left
ComposeStepStaleAngle(t2d, row, PPi, slice) ==
    LET set  == [t2d EXCEPT !.tx = row[2], !.ty = row[3]]
        inv  == InvertEuler2D(set)
        A2   == ComposeAffine(InvertAffine(PPi),
                              ComposeAffine(Get3DFrom2D(inv), PPi))
    IN  [t2d |-> inv, affine |-> A2, slice |-> UpdateMotionCorrection(slice, A2)]

\* faulty variant of ComposeStep: the fitted transform is not inverted
ComposeStepNoInverse(t2d, row, PPi, slice) ==
    LET set  == SetParameters(t2d, row)
        A2   == ComposeAffine(InvertAffine(PPi),
                              ComposeAffine(Get3DFrom2D(set), PPi))
    IN  [t2d |-> set, affine |-> A2, slice |-> UpdateMotionCorrection(slice, A2)]

\* one iteration of the loop of _apply_motion_correction: the reused 2D
\* transform object, the composed transform and the updated slice
ComposeStep(t2d, row, PPi, slice) ==
    LET set  == SetParameters(t2d, row)
        inv  == InvertEuler2D(set)
        T3   == Get3DFrom2D(inv)
        A    == ComposeAffine(T3, PPi)
        A2   == ComposeAffine(InvertAffine(PPi), A)
    IN  [t2d |-> inv, affine |-> A2, slice |-> UpdateMotionCorrection(slice, A2)]

\* ------------------------------------------------------------- input space
Angles == {0, 1}

Shifts == (0 - MaxShift)..MaxShift

Abs(n) == IF n < 0 THEN 0 - n ELSE n

\* in-plane translation vectors of length at most MaxShift (1-norm)
ShiftVecs == {v \in Shifts \X Shifts : Abs(v[1]) + Abs(v[2]) <= MaxShift}

\* one group of the parameter vector: (angle, tx, ty)
ParamGroups == {<< a, v[1], v[2] >> : a \in Angles, v \in ShiftVecs}

\* flat parameter vectors of n groups
RECURSIVE ParamVecs(_)
ParamVecs(n) ==
    IF n = 0 THEN {<< >>}
    ELSE {v \o g : v \in ParamVecs(n - 1), g \in ParamGroups}

\* the grid every slice of the stack is sampled on
StackGrid == Image2D(Zeros(Width * Height), << Width, Height >>, << 0, 0 >>)

\* two bright pixels of different value: no rigid motion but the identity
\* maps the pattern to itself
Pattern ==
    Image2D([k \in 1..(Width * Height) |->
                IF k = Width + 2 THEN 1 ELSE IF k = Width + 3 THEN 2 ELSE 0],
            << Width, Height >>, << 0, 0 >>)

\* the pattern with one non-finite pixel in the corner
PatternNaN ==
    Image2D([Pattern.nda EXCEPT ![Width * Height] = NaN],
            << Width, Height >>, << 0, 0 >>)

\* mask that is 1 except on the last column
MaskPattern == [k \in 1..(Width * Height) |-> IF k % Width = 0 THEN 0 ELSE 1]

\* quarter turn about the x axis
RotX == << <<1, 0, 0>>, <<0, 0, 0 - 1>>, <<0, 1, 0>> >>

Placements ==
    { [direction |-> Id3, origin |-> Zero3],
      [direction |-> RotX, origin |-> << 2, 0 - 1, 3 >>] }

\* a stack of n slices along the placement's third axis; the content of
\* slice k is img sampled under the translation sh[k]
MakeStack(n, pl, img, sh) ==
    [size |-> << Width, Height, n >>,
     slices |-> [k \in 1..n |->
        Slice3D(pl.direction,
                Add3(pl.origin, MatVec3(pl.direction, << 0, 0, k - 1 >>)),
                Resample(img, StackGrid,
                         SetParameters(NewEuler2D, << 0, sh[k][1], sh[k][2] >>)),
                MaskPattern)]]

\* shift sequences: slice 0 is never shifted
ShiftSeqs(n) == {s \in [1..n -> ShiftVecs] : s[1] = << 0, 0 >>}

\* -------------------------------------------------------------------- state
VARIABLES
    pc,                           \* position in run_regularized_rigid_inplane_registration
    fixed,                        \* self._fixed, the input stack
    use_fixed_mask,               \* self._use_fixed_mask
    N_slices,                     \* self._N_slices
    N_2D_voxels,                  \* self._N_2D_voxels
    transforms_PP_3D_sitk,        \* the per-slice alignment transforms
    projected_slices,             \* self._2D_projected_slices
    idx,                          \* loop counter of the running loop
    heap,                         \* the Euler2DTransform objects made at line 75
    transforms_sitk,              \* list of references into heap
    fixed_grid_2D_sitk,           \* self._fixed_grid_2D_sitk
    max_nfev,                     \* least_squares' evaluation budget
    solver,                       \* least_squares: iterate x, residual f at x,
                                  \* nfev, the call (at) that produced f, and
                                  \* the calls at other points since (between)
    call,                         \* the latest evaluator call: x, nda, residual
    res,                          \* the OptimizeResult returned by least_squares
    parameters,                   \* self._parameters
    transform_2D_sitk,            \* the reused 2D transform of the composer
    work,                         \* the composer's locals: stack copy and transform list
    stack_corrected,              \* self._stack_corrected
    registration_transforms_sitk, \* self._registration_transforms_sitk
    error                         \* the exception that ended the run, or "none"

vars == << pc, fixed, use_fixed_mask, N_slices, N_2D_voxels, max_nfev,
           transforms_PP_3D_sitk, projected_slices, idx, heap, transforms_sitk,
           fixed_grid_2D_sitk, solver, call, res, parameters,
           transform_2D_sitk, work, stack_corrected,
           registration_transforms_sitk, error >>

\* Python's None in a list of rows, and in a list of transforms
None == << >>

NoneTransform == Affine(<< >>, << >>, << >>)

NoStack == [size |-> << 0, 0, 0 >>, slices |-> << >>]

NoImage == Image2D(<< >>, << 0, 0 >>, << 0, 0 >>)

NoCall == [x |-> << >>, nda |-> << >>, residual |-> << >>]

NoSolver == [x |-> << >>, f |-> << >>, nfev |-> 0, at |-> 0, between |-> 0]

NoResult == [x |-> << >>, cost |-> 0, success |-> FALSE, returned |-> FALSE]

\* the object after __init__ on the given stack
Constructed(stack, useMask) ==
    /\ pc = "start"
    /\ fixed = stack
    /\ use_fixed_mask = useMask
    /\ N_slices = stack.size[3]
    /\ N_2D_voxels = stack.size[2] * stack.size[1]
    /\ transforms_PP_3D_sitk = << >>
    /\ projected_slices = << >>
    /\ idx = 0
    /\ heap = << >>
    /\ transforms_sitk = << >>
    /\ fixed_grid_2D_sitk = NoImage
    /\ solver = NoSolver
    /\ call = NoCall
    /\ res = NoResult
    /\ parameters = [i \in 1..stack.size[3] |-> None]
    /\ transform_2D_sitk = NewEuler2D
    /\ work = [stack |-> NoStack, transforms |-> << >>]
    /\ stack_corrected = NoStack
    /\ registration_transforms_sitk = [i \in 1..stack.size[3] |-> NoneTransform]
    /\ error = "none"

\* placement and masking of the stacks the model starts from
Configs ==
    { [pl |-> [direction |-> Id3, origin |-> Zero3], mask |-> FALSE],
      [pl |-> [direction |-> RotX, origin |-> << 2, 0 - 1, 3 >>], mask |-> TRUE] }

\* slice k (k >= 1) moved by one step along x, then along y
Staircase(n) ==
    [k \in 1..n |-> IF k = 1 THEN << 0, 0 >>
                    ELSE IF k % 2 = 0 THEN << 1, 0 >> ELSE << 0, 1 >>]

Init ==
    /\ max_nfev = MaxNfev
    /\ \E n \in 1..MaxSlices, cfg \in Configs, img \in {Pattern, PatternNaN} :
         Constructed(MakeStack(n, cfg.pl, img, Staircase(n)), cfg.mask)

\* the end-to-end scenario: every slice an exact translated copy of slice 0
InitE2E ==
    /\ max_nfev = MaxNfev - 1
    /\ \E pl \in Placements, sh \in ShiftSeqs(MaxSlices) :
         Constructed(MakeStack(MaxSlices, pl, Pattern, sh), FALSE)

\* ------------------------------------------------------------------ actions
\* line 68: the alignment transforms of the slices
GetTransforms ==
    /\ pc = "start"
    /\ transforms_PP_3D_sitk' = ListOf3DRigidTransforms(fixed)
    /\ idx' = 0
    /\ pc' = "project"
    /\ UNCHANGED << fixed, use_fixed_mask, N_slices, N_2D_voxels, max_nfev,
                    projected_slices, heap, transforms_sitk,
                    fixed_grid_2D_sitk, solver, call, res, parameters,
                    transform_2D_sitk, work, stack_corrected,
                    registration_transforms_sitk, error >>

\* lines 174-205: one iteration of the projection loop
ProjectNext ==
    /\ pc = "project"
    /\ idx < N_slices
    /\ LET r == ProjectSlice(fixed, idx + 1, transforms_PP_3D_sitk, use_fixed_mask)
       IN  /\ fixed' = r.stack
           /\ projected_slices' = Append(projected_slices, r.slice2D)
    /\ idx' = idx + 1
    /\ UNCHANGED << pc, use_fixed_mask, N_slices, N_2D_voxels, max_nfev,
                    transforms_PP_3D_sitk, heap, transforms_sitk,
                    fixed_grid_2D_sitk, solver, call, res, parameters,
                    transform_2D_sitk, work, stack_corrected,
                    registration_transforms_sitk, error >>

\* lines 74-82: one Euler2DTransform object referenced N_slices times, the
\* fixed grid copied from projected slice 0, the all-zero initial guess
SolverSetup ==
    /\ pc = "project"
    /\ idx = N_slices
    /\ heap' = << NewEuler2D >>
    /\ transforms_sitk' = [i \in 1..N_slices |-> 1]
    /\ fixed_grid_2D_sitk' = projected_slices[1]
    /\ solver' = [x |-> Zeros((N_slices - 1) * DOF), f |-> << >>,
                  nfev |-> 0, at |-> 0, between |-> 0]
    /\ pc' = "solve"
    /\ UNCHANGED << fixed, use_fixed_mask, N_slices, N_2D_voxels, max_nfev,
                    transforms_PP_3D_sitk, projected_slices, idx, call, res,
                    parameters, transform_2D_sitk, work, stack_corrected,
                    registration_transforms_sitk, error >>

\* least_squares calls fun(x): first at x0, then at trial points.  A
\* non-finite residual at x0 raises; an exception of the evaluator
\* propagates; a trial point becomes the iterate when it lowers the cost.
SolverEvaluate(x) ==
    /\ pc = "solve"
    /\ solver.nfev < max_nfev
    /\ solver.nfev = 0 => x = solver.x
    /\ \E r \in {ResidualDataFit(x, heap, transforms_sitk, projected_slices,
                                 fixed_grid_2D_sitk, N_slices, N_2D_voxels)} :
           /\ heap' = r.heap
           /\ call' = [x |-> x, nda |-> r.nda, residual |-> r.residual]
           /\ IF r.err # "none"
              THEN /\ pc' = "failed"
                   /\ error' = r.err
                   /\ solver' = [solver EXCEPT !.nfev = @ + 1]
              ELSE IF solver.nfev = 0 /\ ~IsFinite(r.residual)
              THEN /\ pc' = "failed"
                   /\ error' = "ValueError"
                   /\ solver' = [solver EXCEPT !.nfev = @ + 1]
              ELSE /\ pc' = pc
                   /\ error' = error
                   /\ solver' =
                        IF solver.nfev = 0
                           \/ (IsFinite(r.residual) /\ Cost(r.residual) < Cost(solver.f))
                        THEN [x |-> x, f |-> r.residual,
                              nfev |-> solver.nfev + 1, at |-> solver.nfev + 1,
                              between |-> 0]
                        ELSE [solver EXCEPT !.nfev = @ + 1,
                                            !.between = IF x = solver.x
                                                        THEN @ ELSE @ + 1]
    /\ UNCHANGED << fixed, use_fixed_mask, N_slices, N_2D_voxels, max_nfev,
                    transforms_PP_3D_sitk, projected_slices, idx,
                    transforms_sitk, fixed_grid_2D_sitk, res, parameters,
                    transform_2D_sitk, work, stack_corrected,
                    registration_transforms_sitk >>

\* line 88: least_squares returns its iterate; it reports success when a
\* tolerance is met, and failure when the evaluation budget is used up.
\* The solver's own state and the locals of the last evaluator call end
\* with the call.
SolverReturn(success) ==
    /\ pc = "solve"
    /\ solver.nfev >= 1
    /\ ~success => solver.nfev = max_nfev
    /\ res' = [x |-> solver.x, cost |-> Cost(solver.f),
               success |-> success, returned |-> TRUE]
    /\ solver' = NoSolver
    /\ call' = NoCall
    /\ pc' = "solved"
    /\ UNCHANGED << fixed, use_fixed_mask, N_slices, N_2D_voxels, max_nfev,
                    transforms_PP_3D_sitk, projected_slices, idx, heap,
                    transforms_sitk, fixed_grid_2D_sitk,
                    parameters, transform_2D_sitk, work, stack_corrected,
                    registration_transforms_sitk, error >>

\* lines 91-93 and 101-105: the zero row is put before the solved rows,
\* the input stack is copied, a fresh 2D transform is made
BeginCorrection ==
    /\ pc = "solved"
    /\ parameters' = ReconstructParameters(res.x)
    /\ work' = [stack |-> StackFromStack(fixed),
                transforms |-> [i \in 1..N_slices |-> NoneTransform]]
    /\ transform_2D_sitk' = NewEuler2D
    /\ idx' = 0
    /\ pc' = "compose"
    /\ UNCHANGED << fixed, use_fixed_mask, N_slices, N_2D_voxels, max_nfev,
                    transforms_PP_3D_sitk, projected_slices, heap,
                    transforms_sitk, fixed_grid_2D_sitk, solver, call, res,
                    stack_corrected, registration_transforms_sitk, error >>

\* lines 107-120: one iteration of the composer's loop
ComposeNext ==
    /\ pc = "compose"
    /\ idx < N_slices
    /\ LET i == idx + 1
           r == ComposeStep(transform_2D_sitk, parameters[i],
                            transforms_PP_3D_sitk[i], work.stack.slices[i])
       IN  /\ transform_2D_sitk' = r.t2d
           /\ work' = [stack |-> [work.stack EXCEPT !.slices[i] = r.slice],
                       transforms |-> [work.transforms EXCEPT ![i] = r.affine]]
    /\ idx' = idx + 1
    /\ UNCHANGED << pc, fixed, use_fixed_mask, N_slices, N_2D_voxels, max_nfev,
                    transforms_PP_3D_sitk, projected_slices, heap,
                    transforms_sitk, fixed_grid_2D_sitk, solver, call, res,
                    parameters, stack_corrected,
                    registration_transforms_sitk, error >>

\* lines 122 and 96: the composer returns, the results are stored
FinishRun ==
    /\ pc = "compose"
    /\ idx = N_slices
    /\ stack_corrected' = work.stack
    /\ registration_transforms_sitk' = work.transforms
    /\ pc' = "done"
    /\ UNCHANGED << fixed, use_fixed_mask, N_slices, N_2D_voxels, max_nfev,
                    transforms_PP_3D_sitk, projected_slices, idx, heap,
                    transforms_sitk, fixed_grid_2D_sitk, solver, call, res,
                    parameters, transform_2D_sitk, work, error >>

Next ==
    \/ GetTransforms
    \/ ProjectNext
    \/ SolverSetup
    \/ (pc = "solve" /\ \E x \in ParamVecs(N_slices - 1) : SolverEvaluate(x))
    \/ \E success \in BOOLEAN : SolverReturn(success)
    \/ BeginCorrection
    \/ ComposeNext
    \/ FinishRun

Spec == Init /\ [][Next]_vars

SpecE2E == InitE2E /\ [][Next]_vars

\* ------------------------------------------------------------- properties
\* group g (1-based) of a flat parameter vector
Group(x, g) == SubSeq(x, DOF * (g - 1) + 1, DOF * g)

\* a 2D rigid transform made for the parameters p alone: centre (0, 0)
FreshTransform(p) ==
    [angle |-> p[1], tx |-> p[2], ty |-> p[3], cx |-> 0, cy |-> 0]

\* the evaluator has been called and has returned a residual
EvaluatorReturned == pc = "solve" /\ solver.nfev >= 1

\* a step of the run that is one call of the evaluator
EvaluatorStep == pc = "solve" /\ solver'.nfev = solver.nfev + 1

GridVoxels == fixed_grid_2D_sitk.size[1] * fixed_grid_2D_sitk.size[2]

IsZero(r) == \A k \in 1..Len(r) : r[k] = 0

\* C1: for N >= 2 slices the residual the evaluator returns has exactly
\* (N - 1) x (voxel count of the fixed 2D grid of slice 0) entries.
C1_ResidualLength ==
    (EvaluatorReturned /\ N_slices >= 2) =>
        /\ Len(call.x) = DOF * (N_slices - 1)
        /\ Len(call.residual) = (N_slices - 1) * GridVoxels

C1_Witness ==
    /\ EvaluatorReturned
    /\ N_slices = MaxSlices
    /\ ~IsZero(call.x)
    /\ Len(call.residual) = (MaxSlices - 1) * Width * Height

\* C2: in one evaluation nda[0] is the raw array of projected slice 0, nda[i]
\* is projected slice i resampled on the fixed grid under the transform with
\* exactly the parameters of group i, and block i - 1 of the residual is
\* nda[i-1] - nda[i], the blocks following each other in slice order.
C2_ChainedBlocks ==
    EvaluatorReturned =>
        /\ Len(call.nda) = N_slices
        /\ call.nda[1] = projected_slices[1].nda
        /\ \A i \in 2..N_slices :
              call.nda[i] = Resample(projected_slices[i], fixed_grid_2D_sitk,
                                     FreshTransform(Group(call.x, i - 1)))
        /\ \A i \in 1..(N_slices - 1) : \A k \in 1..GridVoxels :
              call.residual[(i - 1) * GridVoxels + k]
                  = PixSub(call.nda[i][k], call.nda[i + 1][k])

C2_Witness ==
    /\ EvaluatorReturned
    /\ N_slices >= 3
    /\ Group(call.x, 1) # Group(call.x, 2)
    /\ call.nda[2] # projected_slices[2].nda
    /\ call.nda[3] # projected_slices[3].nda
    /\ ~IsZero(call.residual)

\* C3: a call of the evaluator at the parameter vector of an earlier call
\* returns the residual of that earlier call, whatever calls at other
\* parameter vectors were made before or in between.
C3_Determinism ==
    (pc = "solve" /\ solver.nfev >= 2 /\ call.x = solver.x) =>
        call.residual = solver.f

C3_Witness ==
    /\ pc = "solve"
    /\ N_slices >= 3
    /\ call.x = solver.x
    /\ solver.at < solver.nfev
    /\ solver.between >= 1

\* C4: no step of a run changes the input stack; the working copy of the
\* stack is made and changed only after the solver has returned, and the
\* image content of its slices stays that of the input slices.
C4_InputStackNeverMutated ==
    [][ /\ fixed' = fixed
        /\ (work' # work) =>
              /\ res.returned
              /\ pc \in {"solved", "compose"}
              /\ \A i \in 1..N_slices :
                    /\ work'.stack.slices[i].nda = fixed.slices[i].nda
                    /\ work'.stack.slices[i].mask = fixed.slices[i].mask
        /\ (stack_corrected' # stack_corrected) =>
              (pc = "compose" /\ stack_corrected' = work.stack) ]_vars

C4_Witness ==
    /\ pc = "done"
    /\ \E i \in 1..N_slices :
          /\ stack_corrected.slices[i].origin # fixed.slices[i].origin
          /\ stack_corrected.slices[i].nda = fixed.slices[i].nda
    /\ \E i \in 1..N_slices :
          projected_slices[i].origin
              # << fixed.slices[i].origin[1], fixed.slices[i].origin[2] >>

\* C5: when the solver reports that it did not converge, or the solve
\* raises, the run produces no parameter matrix, no registration transforms
\* and no corrected stack.
C5_FailedSolveProducesNothing ==
    ((res.returned /\ ~res.success) \/ pc = "failed") =>
        /\ parameters = [i \in 1..N_slices |-> None]
        /\ work.stack = NoStack
        /\ stack_corrected = NoStack
        /\ registration_transforms_sitk = [i \in 1..N_slices |-> NoneTransform]

\* the transform the composer is to give slice i: alignment first, then the
\* inverted in-plane correction of row i, then the inverse alignment
ExpectedTransform(i) ==
    ComposeAffine(
        InvertAffine(transforms_PP_3D_sitk[i]),
        ComposeAffine(
            Get3DFrom2D(InvertEuler2D(FreshTransform(parameters[i]))),
            transforms_PP_3D_sitk[i]))

\* C6: the transform applied to slice i of the corrected stack and stored
\* at position i is the composition built from row i of the parameter
\* matrix and alignment i alone, whatever rows were processed before.
C6_ComposedTransform ==
    (pc \in {"compose", "done"}) =>
        /\ \A i \in 1..idx :
              /\ work.transforms[i] = ExpectedTransform(i)
              /\ work.stack.slices[i]
                    = UpdateMotionCorrection(fixed.slices[i], ExpectedTransform(i))
        /\ pc = "done" =>
              /\ registration_transforms_sitk = work.transforms
              /\ stack_corrected = work.stack

C6_Witness ==
    /\ pc = "done"
    /\ N_slices >= 3
    /\ parameters[2][1] # 0
    /\ << parameters[2][2], parameters[2][3] >> # << 0, 0 >>
    /\ parameters[3] # parameters[2]
    /\ parameters[3] # Zeros(DOF)

\* C7: once the solver has returned, the parameter matrix has N rows of
\* DOF values, row 0 zero and row i the solved group i; the sequence of
\* transforms a finished run returns has N entries, and entry 0 is the
\* identity in-plane correction composed with the alignment of slice 0.
C7_ParameterMatrix ==
    (pc \in {"compose", "done"}) =>
        /\ Len(parameters) = N_slices
        /\ parameters[1] = Zeros(DOF)
        /\ \A i \in 2..N_slices : parameters[i] = Group(res.x, i - 1)
        /\ pc = "done" =>
              /\ Len(registration_transforms_sitk) = N_slices
              /\ registration_transforms_sitk[1]
                    = ComposeAffine(InvertAffine(transforms_PP_3D_sitk[1]),
                                    ComposeAffine(IdentityAffine,
                                                  transforms_PP_3D_sitk[1]))
              /\ registration_transforms_sitk[1].A = Id3
              /\ ApplyAffine(registration_transforms_sitk[1], Zero3) = Zero3

C7_Witness ==
    /\ pc = "done"
    /\ N_slices >= 3
    /\ ~IsZero(res.x)
    /\ fixed.slices[1].direction # Id3

\* C8, as far as the code of this class decides it: with a single slice the
\* projection yields one element, the evaluator returns an empty residual
\* without an error, and when the solver returns, the corrected stack of
\* the finished run equals the input stack, its one transform the identity.
C8_SingleSlice ==
    (N_slices = 1) =>
        /\ pc # "failed"
        /\ error = "none"
        /\ pc \in {"solve", "solved", "compose", "done"} =>
              Len(projected_slices) = 1
        /\ EvaluatorReturned => (call.residual = << >> /\ call.x = << >>)
        /\ pc = "done" =>
              /\ stack_corrected = fixed
              /\ registration_transforms_sitk = << IdentityAffine >>

C8_Witness ==
    /\ N_slices = 1
    /\ pc = "done"
    /\ ~IsFinite(fixed.slices[1].nda)
    /\ fixed.slices[1].direction # Id3

\* slice k of the projected stack is slice 0 sampled under the translation
\* t, with nothing of its content pushed off the grid
IsCopyBy(k, t) ==
    /\ projected_slices[k].nda
          = Resample(projected_slices[1], fixed_grid_2D_sitk,
                     FreshTransform(<< 0, t[1], t[2] >>))
    /\ Cost(projected_slices[k].nda) = Cost(projected_slices[1].nda)

\* corrected slice k, seen in the frame its alignment transform maps to,
\* sampled on the fixed grid
CorrectedInPlane(k) ==
    LET T == ComposeAffine(transforms_PP_3D_sitk[k],
                           AffineFromImage(stack_corrected.slices[k]))
    IN  [direction |-> T.A, z |-> T.t[3],
         nda |-> Resample(Image2D(stack_corrected.slices[k].nda,
                                  fixed_grid_2D_sitk.size,
                                  << T.t[1], T.t[2] >>),
                          fixed_grid_2D_sitk, NewEuler2D)]

SlicesCoincide ==
    \A k \in 1..N_slices :
        /\ CorrectedInPlane(k).direction = Id3
        /\ CorrectedInPlane(k).z = 0
        /\ CorrectedInPlane(k).nda = projected_slices[1].nda

\* C9 as stated: with slice k an exact copy of slice 0 translated by t_k,
\* a parameter vector of zero residual has the translation -(t_k - t_(k-1))
\* in the group of slice k (t_0 = 0).
C9_RelativeTranslations ==
    (EvaluatorReturned /\ IsZero(call.residual)) =>
        \A k \in 2..N_slices : \A t \in ShiftVecs, u \in ShiftVecs :
            (IsCopyBy(k, t) /\ IsCopyBy(k - 1, u)) =>
                /\ Group(call.x, k - 1)[2] = 0 - (t[1] - u[1])
                /\ Group(call.x, k - 1)[3] = 0 - (t[2] - u[2])

\* C9: with slice k an exact copy of slice 0 translated by t_k, a
\* parameter vector of zero residual has the translation -t_k in the group
\* of slice k, and the slices of the stack corrected with such a vector
\* coincide.
C9_AbsoluteTranslations ==
    /\ (EvaluatorReturned /\ IsZero(call.residual)) =>
          \A k \in 2..N_slices : \A t \in ShiftVecs :
              IsCopyBy(k, t) =>
                  /\ Group(call.x, k - 1)[2] = 0 - t[1]
                  /\ Group(call.x, k - 1)[3] = 0 - t[2]
    /\ (pc = "done" /\ res.cost = 0) => SlicesCoincide

C9_Witness ==
    /\ pc = "done"
    /\ res.cost = 0
    /\ N_slices >= 3
    /\ \E t \in ShiftVecs, u \in ShiftVecs :
          /\ t # << 0, 0 >> /\ u # << 0, 0 >> /\ t # u
          /\ IsCopyBy(2, u) /\ IsCopyBy(3, t)
          /\ Group(res.x, 1) = << 0, 0 - u[1], 0 - u[2] >>
          /\ Group(res.x, 2) = << 0, 0 - t[1], 0 - t[2] >>
    /\ SlicesCoincide

\* C10 as stated: a call of the evaluator changes no state that outlives
\* it, the transform templates included.
C10_EvaluatorSideEffectFree ==
    [][ EvaluatorStep =>
            /\ heap' = heap
            /\ transforms_sitk' = transforms_sitk
            /\ projected_slices' = projected_slices
            /\ fixed_grid_2D_sitk' = fixed_grid_2D_sitk
            /\ fixed' = fixed ]_vars

\* C10: a call of the evaluator leaves the input stack, the projected
\* slices, the fixed grid and the list of template references unchanged;
\* of the one shared template it overwrites the three parameters with the
\* last group of the call's vector and leaves the centre alone.
C10_EvaluatorWritesTemplateOnly ==
    [][ EvaluatorStep =>
            /\ transforms_sitk' = transforms_sitk
            /\ projected_slices' = projected_slices
            /\ fixed_grid_2D_sitk' = fixed_grid_2D_sitk
            /\ fixed' = fixed
            /\ Len(heap') = Len(heap)
            /\ IF N_slices >= 2
               THEN /\ heap'[1].angle = Group(call'.x, N_slices - 1)[1]
                    /\ heap'[1].tx = Group(call'.x, N_slices - 1)[2]
                    /\ heap'[1].ty = Group(call'.x, N_slices - 1)[3]
                    /\ heap'[1].cx = heap[1].cx
                    /\ heap'[1].cy = heap[1].cy
               ELSE heap' = heap ]_vars

C10_Witness ==
    /\ pc = "solve"
    /\ solver.nfev >= 2
    /\ N_slices >= 3
    /\ heap[1].tx # heap[1].ty
    /\ heap[1] # NewEuler2D

====
